---- MODULE Spec2Model ----
(***************************************************************************)
(* update_pkg_deps: a manifest's dependency identifiers are parsed, the    *)
(* latest version of each is looked up on a thread pool, and the sorted    *)
(* identifiers are written back as a new manifest.                         *)
(*                                                                         *)
(* A Python str is a sequence of one-character strings; a Package is a     *)
(* record of three such sequences.  The thread pool, its futures and       *)
(* as_completed follow CPython's concurrent.futures, which the code calls. *)
(***************************************************************************)
EXTENDS Integers, Sequences, FiniteSets, TLC

VARIABLES
    heap,             \* the manifest objects: reference -> document
    registry,         \* the registry's answer for each <<namespace, name>>
    max_workers,      \* --max-workers
    pc,               \* where the main thread is
    manifest,         \* update_manifest_deps' local `manifest` (a reference)
    deps_orig,        \* the parsed packages
    futures,          \* future_to_pkg's futures, in submission order
    work_queue,       \* the executor's _work_queue (indices into futures)
    num_threads,      \* len(executor._threads)
    started,          \* worker threads t.start() has started
    idle_semaphore,   \* executor._idle_semaphore
    exited,           \* worker threads that have returned
    shutdown,         \* executor._shutdown
    taken,            \* futures whose work item a worker has got and not run
    releasing,        \* futures set finished, the idle count not yet released
    waiters,          \* the futures as_completed's waiter is installed on
    ac_finished,      \* as_completed's local list `finished`
    ac_pending,       \* as_completed's local set `pending`
    waiter_finished,  \* waiter.finished_futures
    deps_latest,      \* the results, in the order as_completed yields them
    err,              \* the exception update_manifest_deps raised
    result,           \* the reference update_manifest_deps returned
    path_out,         \* the output file: <<>> until written
    finish_order,     \* history: the futures in the order they finished
    yield_order,      \* history: the futures in the order they were yielded
    rt_pc,            \* round-trip harness: position
    rt_in,            \* round-trip harness: the input
    rt_out            \* round-trip harness: the output

vars == <<heap, registry, max_workers, pc, manifest, deps_orig, futures,
          work_queue, num_threads, started, idle_semaphore, exited, shutdown,
          taken, releasing, waiters, ac_finished, ac_pending, waiter_finished,
          deps_latest, err, result, path_out, finish_order, yield_order, rt_pc,
          rt_in, rt_out>>

pool_vars == <<heap, registry, max_workers, pc, manifest, deps_orig, futures,
               work_queue, num_threads, started, idle_semaphore, exited,
               shutdown, taken, releasing, waiters, ac_finished, ac_pending,
               waiter_finished, deps_latest, err, result, path_out,
               finish_order, yield_order>>

rt_vars == <<rt_pc, rt_in, rt_out>>

---------------------------------------------------------------------------
(* Bounds *)

MaxDeps == 3
MaxWorkers == 2
MaxLen == 5
MaxCompLen == 1

(* Program constants *)

_DEFAULT_MAX_WORKERS == 5

---------------------------------------------------------------------------
(* Strings *)

\* ord(c) for the characters in use
Ord(c) ==
    CASE c = "-" -> 45
      [] c = "1" -> 49
      [] c = "2" -> 50
      [] c = "a" -> 97
      [] c = "b" -> 98
      [] c = "c" -> 99

\* Python's a <= b on str: lexicographic by code point, a prefix first
RECURSIVE StrLE(_, _)
StrLE(a, b) ==
    IF a = <<>> THEN TRUE
    ELSE IF b = <<>> THEN FALSE
    ELSE IF Ord(Head(a)) < Ord(Head(b)) THEN TRUE
    ELSE IF Ord(Head(a)) > Ord(Head(b)) THEN FALSE
    ELSE StrLE(Tail(a), Tail(b))

\* where s[i] stands in the sorted list: after the smaller elements and
\* after the equal ones that come before it (the sort is stable)
Rank(s, i) ==
    1 + Cardinality({j \in 1..Len(s) :
                        \/ ~StrLE(s[i], s[j])
                        \/ (s[j] = s[i] /\ j < i)})

StableSort(s) ==
    [k \in 1..Len(s) |-> s[CHOOSE i \in 1..Len(s) : Rank(s, i) = k]]

\* a mutant of sorted: the list as it comes (completion order)
sorted_unsorted(s) == s

\* sorted(list of str)
sorted(s) == StableSort(s)

\* full_name.split("-"): the components between the dashes, empty ones kept
RECURSIVE split(_)
split(s) ==
    IF s = <<>> THEN << <<>> >>
    ELSE LET rest == split(Tail(s)) IN
         IF Head(s) = "-" THEN << <<>> >> \o rest
         ELSE << <<Head(s)>> \o Head(rest) >> \o Tail(rest)

---------------------------------------------------------------------------
(* Package *)

Package(namespace, name, version) ==
    [namespace |-> namespace, name |-> name, version |-> version]

NoPackage == Package(<<>>, <<>>, <<>>)

\* a mutant of from_str: split("-", 2), so the third part takes the rest
RECURSIVE JoinDash(_)
JoinDash(parts) ==
    IF Len(parts) = 1 THEN parts[1]
    ELSE parts[1] \o <<"-">> \o JoinDash(Tail(parts))

from_str_maxsplit(full_name) ==
    LET parts == split(full_name) IN
    IF Len(parts) >= 3
    THEN [raised |-> FALSE,
          value |-> Package(parts[1], parts[2],
                            JoinDash(SubSeq(parts, 3, Len(parts))))]
    ELSE [raised |-> TRUE, value |-> NoPackage]

\* a mutant of from_str: the first two fields unpacked in the wrong order
from_str_swapped(full_name) ==
    LET parts == split(full_name) IN
    IF Len(parts) = 3
    THEN [raised |-> FALSE, value |-> Package(parts[2], parts[1], parts[3])]
    ELSE [raised |-> TRUE, value |-> NoPackage]

\* Package.from_str: a Package, or ValueError unless there are three parts
from_str(full_name) ==
    LET parts == split(full_name) IN
    IF Len(parts) = 3
    THEN [raised |-> FALSE, value |-> Package(parts[1], parts[2], parts[3])]
    ELSE [raised |-> TRUE, value |-> NoPackage]

\* Package.__str__
__str__(p) == p.namespace \o <<"-">> \o p.name \o <<"-">> \o p.version

---------------------------------------------------------------------------
(* The registry *)

Response(ok, version_number) == [ok |-> ok, version_number |-> version_number]

\* any failure of the request: network error, timeout, bad status, bad body
LookupError == Response(FALSE, <<>>)

Responses == {Response(TRUE, <<"2">>), LookupError}

\* a mutant of get_latest: the version it was created with is kept
get_latest_stale(self, reg) ==
    LET response == reg[<<self.namespace, self.name>>] IN
    IF response.ok
    THEN [raised |-> FALSE, value |-> self]
    ELSE [raised |-> TRUE, value |-> NoPackage]

\* Package.get_latest: the package at the registry's latest version_number,
\* or the exception of requests.get, raise_for_status, json or the lookups
get_latest(self, reg) ==
    LET response == reg[<<self.namespace, self.name>>] IN
    IF response.ok
    THEN [raised |-> FALSE,
          value |-> Package(self.namespace, self.name,
                            response.version_number)]
    ELSE [raised |-> TRUE, value |-> NoPackage]

---------------------------------------------------------------------------
(* Inputs *)

\* identifiers a manifest may list: two well formed (one at the version the
\* registry has, one behind it), one with two parts, one with four
DepPool ==
    { <<"a", "-", "c", "-", "2">>,
      <<"a", "-", "b", "-", "1">>,
      <<"a", "-", "b">>,
      <<"a", "-", "b", "-", "c", "-", "1">> }

\* the values of the manifest's other field
ManifestNames == {"LethalLuna", "Other"}

Lists(S, n) == UNION {[1..k -> S] : k \in 0..n}

Manifests ==
    [name : ManifestNames, dependencies : Lists(DepPool, MaxDeps)]

KeyOf(full_name) ==
    LET p == from_str(full_name).value IN <<p.namespace, p.name>>

PoolKeys == {KeyOf(d) : d \in {x \in DepPool : ~from_str(x).raised}}

KeysOf(deps) ==
    {KeyOf(deps[i]) : i \in {j \in 1..Len(deps) : ~from_str(deps[j]).raised}}

WorkerChoices == (0..MaxWorkers) \cup {_DEFAULT_MAX_WORKERS}

---------------------------------------------------------------------------
(* Objects *)

\* a mutant of deepcopy: the caller's object itself
deepcopy_alias(h, r) == [heap |-> h, ref |-> r]

\* deepcopy(manifest): a new object equal to the old one
deepcopy(h, r) == [heap |-> h @@ ("copy" :> h[r]), ref |-> "copy"]

NoError ==
    [type |-> "none", of |-> "none", full_name |-> <<>>, pkg |-> NoPackage,
     cause |-> 0]

\* from_str's ValueError('Failed to parse package name "..."')
ParseError(full_name) ==
    [type |-> "ValueError", of |-> "parse", full_name |-> full_name,
     pkg |-> NoPackage, cause |-> 0]

\* ThreadPoolExecutor's ValueError("max_workers must be greater than 0")
WorkersError ==
    [type |-> "ValueError", of |-> "max_workers", full_name |-> <<>>,
     pkg |-> NoPackage, cause |-> 0]

\* ValueError("Failed to get latest version for package pkg=...") from the
\* exception of future f
LookupFailed(pkg, f) ==
    [type |-> "ValueError", of |-> "lookup", full_name |-> <<>>,
     pkg |-> pkg, cause |-> f]

Future(state, raised, value) ==
    [state |-> state, raised |-> raised, value |-> value]

Futs == 1..Len(futures)

Running == {i \in Futs : futures[i].state = "RUNNING"}

Finished == {i \in Futs : futures[i].state = "FINISHED"}

\* worker threads in work_queue.get: every thread started and not returned
\* but those holding a work item, from the get that returned it to the
\* release of the idle count
Blocked ==
    started - exited - Cardinality(taken) - Cardinality(Running)
        - Cardinality(releasing)

Reverse(s) == [i \in 1..Len(s) |-> s[Len(s) + 1 - i]]

\* the lists holding each element of S once
Orderings(S) ==
    {s \in [1..Cardinality(S) -> S] : \A i, j \in 1..Cardinality(S) :
                                          s[i] = s[j] => i = j}

---------------------------------------------------------------------------
(* The thread pool *)

\* a mutant of _adjust_thread_count: one thread more than the cap
_adjust_thread_count_over(idle, n, maxw) ==
    IF idle > 0 THEN [idle |-> idle - 1, start |-> FALSE]
    ELSE IF n <= maxw THEN [idle |-> idle, start |-> TRUE]
    ELSE [idle |-> idle, start |-> FALSE]

\* a mutant of _adjust_thread_count: one thread fewer than the cap
_adjust_thread_count_under(idle, n, maxw) ==
    IF idle > 0 THEN [idle |-> idle - 1, start |-> FALSE]
    ELSE IF n + 1 < maxw THEN [idle |-> idle, start |-> TRUE]
    ELSE [idle |-> idle, start |-> FALSE]

\* ThreadPoolExecutor._adjust_thread_count, as submit calls it, up to
\* t.start(): an idle count is taken, or a thread is started while
\* len(self._threads) is less than max_workers
_adjust_thread_count(idle, n, maxw) ==
    IF idle > 0 THEN [idle |-> idle - 1, start |-> FALSE]
    ELSE IF n < maxw THEN [idle |-> idle, start |-> TRUE]
    ELSE [idle |-> idle, start |-> FALSE]

\* a mutant of executor_exit: the futures not finished are cancelled
executor_exit_cancel(futs) ==
    [i \in 1..Len(futs) |->
        IF futs[i].state = "FINISHED" THEN futs[i]
        ELSE Future("CANCELLED", FALSE, NoPackage)]

\* what leaving the `with` block does to the futures:
\* shutdown(wait=True, cancel_futures=False) cancels none
executor_exit(futs) == futs

\* a mutant of future_to_pkg: the package submitted last, whatever f is
future_to_pkg_last(deps, f) == deps[Len(deps)]

\* future_to_pkg[future]: the package future f was submitted for
future_to_pkg(deps, f) == deps[f]

\* a mutant of loop_body: the exception is swallowed and the loop goes on
loop_body_swallow(fut, pkg, f, latest) ==
    IF fut.raised
    THEN [raise |-> FALSE, err |-> NoError, deps_latest |-> latest]
    ELSE [raise |-> FALSE, err |-> NoError,
          deps_latest |-> Append(latest, fut.value)]

\* the body of the as_completed loop for future f: its result is appended,
\* or its exception is raised again as a ValueError naming pkg
loop_body(fut, pkg, f, latest) ==
    IF fut.raised
    THEN [raise |-> TRUE, err |-> LookupFailed(pkg, f), deps_latest |-> latest]
    ELSE [raise |-> FALSE, err |-> NoError,
          deps_latest |-> Append(latest, fut.value)]

---------------------------------------------------------------------------
(* The run of main *)

RtInput(kind, s, p) == [kind |-> kind, s |-> s, p |-> p]

RtOutput(raised, p, s) == [raised |-> raised, p |-> p, s |-> s]

RtOff ==
    /\ rt_pc = "off"
    /\ rt_in = RtInput("off", <<>>, NoPackage)
    /\ rt_out = RtOutput(FALSE, NoPackage, <<>>)

\* before main has read its arguments and the input file; the registry
\* answers nothing yet listed
Init ==
    /\ heap = <<>>
    /\ registry = [k \in PoolKeys |-> LookupError]
    /\ max_workers = _DEFAULT_MAX_WORKERS
    /\ pc = "start"
    /\ manifest = "orig"
    /\ deps_orig = <<>>
    /\ futures = <<>>
    /\ work_queue = <<>>
    /\ num_threads = 0
    /\ started = 0
    /\ idle_semaphore = 0
    /\ exited = 0
    /\ shutdown = FALSE
    /\ taken = {}
    /\ releasing = {}
    /\ waiters = {}
    /\ ac_finished = <<>>
    /\ ac_pending = {}
    /\ waiter_finished = <<>>
    /\ deps_latest = <<>>
    /\ err = NoError
    /\ result = "null"
    /\ path_out = <<>>
    /\ finish_order = <<>>
    /\ yield_order = <<>>
    /\ RtOff

\* main parses its arguments and loads the manifest; the registry has an
\* answer for each package the manifest names
Load ==
    /\ pc = "start"
    /\ \E m \in Manifests :
          /\ heap' = ("orig" :> m)
          /\ registry' \in {r \in [PoolKeys -> Responses] :
                               \A k \in PoolKeys \ KeysOf(m.dependencies) :
                                   r[k] = LookupError}
    /\ max_workers' \in WorkerChoices
    /\ pc' = "main"
    /\ UNCHANGED <<manifest, deps_orig, futures, work_queue, num_threads,
                   started, idle_semaphore, exited, shutdown, taken, releasing,
                   waiters, ac_finished, ac_pending, waiter_finished,
                   deps_latest, err, result, path_out, finish_order,
                   yield_order, rt_vars>>

\* main calls update_manifest_deps, which copies the manifest
DeepCopy ==
    /\ pc = "main"
    /\ LET c == deepcopy(heap, "orig") IN
         /\ heap' = c.heap
         /\ manifest' = c.ref
    /\ pc' = "parse"
    /\ UNCHANGED <<registry, max_workers, deps_orig, futures, work_queue,
                   num_threads, started, idle_semaphore, exited, shutdown,
                   taken, releasing, waiters, ac_finished, ac_pending,
                   waiter_finished, deps_latest, err, result, path_out,
                   finish_order, yield_order, rt_vars>>

\* deps_orig = [Package.from_str(elem) for elem in manifest["dependencies"]]
Parse ==
    /\ pc = "parse"
    /\ LET deps == heap[manifest].dependencies
           bad == {i \in 1..Len(deps) : from_str(deps[i]).raised}
       IN IF bad = {}
          THEN /\ deps_orig' = [i \in 1..Len(deps) |-> from_str(deps[i]).value]
               /\ pc' = "executor"
               /\ err' = err
          ELSE /\ err' = ParseError(deps[CHOOSE i \in bad :
                                             \A j \in bad : i <= j])
               /\ pc' = "raised"
               /\ deps_orig' = deps_orig
    /\ UNCHANGED <<heap, registry, max_workers, manifest, futures, work_queue,
                   num_threads, started, idle_semaphore, exited, shutdown,
                   taken, releasing, waiters, ac_finished, ac_pending,
                   waiter_finished, deps_latest, result, path_out,
                   finish_order, yield_order, rt_vars>>

\* ThreadPoolExecutor(max_workers=max_workers)
Executor ==
    /\ pc = "executor"
    /\ IF max_workers <= 0
       THEN pc' = "raised" /\ err' = WorkersError
       ELSE pc' = "submit" /\ err' = err
    /\ UNCHANGED <<heap, registry, max_workers, manifest, deps_orig, futures,
                   work_queue, num_threads, started, idle_semaphore, exited,
                   shutdown, taken, releasing, waiters, ac_finished,
                   ac_pending, waiter_finished, deps_latest, result, path_out,
                   finish_order, yield_order, rt_vars>>

\* executor.submit(pkg.get_latest) for the next pkg of deps_orig, up to
\* self._work_queue.put(w)
SubmitPut ==
    /\ pc = "submit"
    /\ Len(futures) < Len(deps_orig)
    /\ futures' = Append(futures, Future("PENDING", FALSE, NoPackage))
    /\ work_queue' = Append(work_queue, Len(futures) + 1)
    /\ pc' = "adjust"
    /\ UNCHANGED <<heap, registry, max_workers, manifest, deps_orig,
                   num_threads, started, idle_semaphore, exited, shutdown,
                   taken, releasing, waiters, ac_finished, ac_pending,
                   waiter_finished, deps_latest, err, result, path_out,
                   finish_order, yield_order, rt_vars>>

\* submit goes on into self._adjust_thread_count(), up to t.start(): the
\* new worker thread runs from here on, the main thread still in the call
SubmitAdjust ==
    /\ pc = "adjust"
    /\ started = num_threads
    /\ LET a == _adjust_thread_count(idle_semaphore, num_threads, max_workers)
       IN /\ idle_semaphore' = a.idle
          /\ started' = IF a.start THEN started + 1 ELSE started
          /\ pc' = IF a.start THEN "adjust" ELSE "submit"
    /\ UNCHANGED <<heap, registry, max_workers, manifest, deps_orig, futures,
                   work_queue, num_threads, exited, shutdown, taken,
                   releasing, waiters, ac_finished, ac_pending,
                   waiter_finished, deps_latest, err, result, path_out,
                   finish_order, yield_order, rt_vars>>

\* the rest of _adjust_thread_count: self._threads.add(t)
SubmitAdd ==
    /\ pc = "adjust"
    /\ started > num_threads
    /\ num_threads' = num_threads + 1
    /\ pc' = "submit"
    /\ UNCHANGED <<heap, registry, max_workers, manifest, deps_orig, futures,
                   work_queue, started, idle_semaphore, exited, shutdown,
                   taken, releasing, waiters, ac_finished, ac_pending,
                   waiter_finished, deps_latest, err, result, path_out,
                   finish_order, yield_order, rt_vars>>

\* as_completed(future_to_pkg) up to its first yield: under the futures'
\* locks, the futures already finished are listed in the order of a set and
\* the waiter is installed on every future
AsCompleted ==
    /\ pc = "submit"
    /\ Len(futures) = Len(deps_orig)
    /\ ac_finished' \in Orderings(Finished)
    /\ ac_pending' = Futs \ Finished
    /\ waiters' = Futs
    /\ pc' = "loop"
    /\ UNCHANGED <<heap, registry, max_workers, manifest, deps_orig, futures,
                   work_queue, num_threads, started, idle_semaphore, exited,
                   shutdown, taken, releasing, waiter_finished, deps_latest,
                   err, result, path_out, finish_order, yield_order, rt_vars>>

\* as_completed yields the next future, its waiter removed, and the loop
\* body runs on it
LoopYield ==
    /\ pc = "loop"
    /\ ac_finished # <<>> \/ waiter_finished # <<>>
    /\ LET refill == ac_finished = <<>>
           batch == IF refill THEN Reverse(waiter_finished) ELSE ac_finished
           f == batch[Len(batch)]
           b == loop_body(futures[f], future_to_pkg(deps_orig, f), f,
                          deps_latest)
       IN /\ ac_finished' = SubSeq(batch, 1, Len(batch) - 1)
          /\ waiter_finished' = IF refill THEN <<>> ELSE waiter_finished
          /\ ac_pending' = ac_pending \ {f}
          /\ waiters' = waiters \ {f}
          /\ deps_latest' = b.deps_latest
          /\ err' = b.err
          /\ pc' = IF b.raise THEN "close" ELSE "loop"
          /\ yield_order' = Append(yield_order, f)
    /\ UNCHANGED <<heap, registry, max_workers, manifest, deps_orig, futures,
                   work_queue, num_threads, started, idle_semaphore, exited,
                   shutdown, taken, releasing, result, path_out, finish_order,
                   rt_vars>>

\* the exception unwinds the loop and closes as_completed's generator: its
\* `finally` removes the waiter from the futures not yielded, one by one
AsCompletedClose ==
    /\ pc = "close"
    /\ IF waiters = {}
       THEN pc' = "exit" /\ waiters' = waiters
       ELSE pc' = pc /\ \E f \in waiters : waiters' = waiters \ {f}
    /\ UNCHANGED <<heap, registry, max_workers, manifest, deps_orig, futures,
                   work_queue, num_threads, started, idle_semaphore, exited,
                   shutdown, taken, releasing, ac_finished, ac_pending,
                   waiter_finished, deps_latest, err, result, path_out,
                   finish_order, yield_order, rt_vars>>

\* as_completed has yielded every future; no future holds its waiter
LoopEnd ==
    /\ pc = "loop"
    /\ ac_finished = <<>>
    /\ ac_pending = {}
    /\ pc' = "exit"
    /\ UNCHANGED <<heap, registry, max_workers, manifest, deps_orig, futures,
                   work_queue, num_threads, started, idle_semaphore, exited,
                   shutdown, taken, releasing, waiters, ac_finished,
                   ac_pending, waiter_finished, deps_latest, err, result,
                   path_out, finish_order, yield_order, rt_vars>>

\* the `with` block is left, by the loop's end or by the exception:
\* executor.shutdown(wait=True) flags the shutdown and wakes the workers
Shutdown ==
    /\ pc = "exit"
    /\ shutdown' = TRUE
    /\ futures' = executor_exit(futures)
    /\ pc' = "join"
    /\ UNCHANGED <<heap, registry, max_workers, manifest, deps_orig,
                   work_queue, num_threads, started, idle_semaphore, exited,
                   taken, releasing, waiters, ac_finished, ac_pending,
                   waiter_finished, deps_latest, err, result, path_out,
                   finish_order, yield_order, rt_vars>>

\* every worker thread is joined; the exception leaves update_manifest_deps
JoinRaise ==
    /\ pc = "join"
    /\ exited = num_threads
    /\ err # NoError
    /\ pc' = "raised"
    /\ UNCHANGED <<heap, registry, max_workers, manifest, deps_orig, futures,
                   work_queue, num_threads, started, idle_semaphore, exited,
                   shutdown, taken, releasing, waiters, ac_finished,
                   ac_pending, waiter_finished, deps_latest, err, result,
                   path_out, finish_order, yield_order, rt_vars>>

\* every worker thread is joined;
\* manifest["dependencies"] = sorted([str(pkg) for pkg in deps_latest])
\* and the copy is returned
JoinReturn ==
    /\ pc = "join"
    /\ exited = num_threads
    /\ err = NoError
    /\ heap' = [heap EXCEPT ![manifest].dependencies =
                   sorted([i \in 1..Len(deps_latest) |->
                              __str__(deps_latest[i])])]
    /\ result' = manifest
    /\ pc' = "returned"
    /\ UNCHANGED <<registry, max_workers, manifest, deps_orig, futures,
                   work_queue, num_threads, started, idle_semaphore, exited,
                   shutdown, taken, releasing, waiters, ac_finished,
                   ac_pending, waiter_finished, deps_latest, err, path_out,
                   finish_order, yield_order, rt_vars>>

\* path_out.write_text(json.dumps(manifest_updated, indent=4))
Write ==
    /\ pc = "returned"
    /\ path_out' = <<heap[result]>>
    /\ pc' = "written"
    /\ UNCHANGED <<heap, registry, max_workers, manifest, deps_orig, futures,
                   work_queue, num_threads, started, idle_semaphore, exited,
                   shutdown, taken, releasing, waiters, ac_finished,
                   ac_pending, waiter_finished, deps_latest, err, result,
                   finish_order, yield_order, rt_vars>>

\* a worker's work_queue.get(block=True) returns the next work item
WorkerGet ==
    /\ Blocked > 0
    /\ work_queue # <<>>
    /\ taken' = taken \cup {Head(work_queue)}
    /\ work_queue' = Tail(work_queue)
    /\ UNCHANGED <<heap, registry, max_workers, pc, manifest, deps_orig,
                   futures, num_threads, started, idle_semaphore, exited,
                   shutdown, releasing, waiters, ac_finished, ac_pending,
                   waiter_finished, deps_latest, err, result, path_out,
                   finish_order, yield_order, rt_vars>>

\* work_item.run(): set_running_or_notify_cancel marks the future running
\* and its get_latest starts
WorkerRun(i) ==
    /\ i \in taken
    /\ futures[i].state = "PENDING"
    /\ futures' = [futures EXCEPT ![i].state = "RUNNING"]
    /\ taken' = taken \ {i}
    /\ UNCHANGED <<heap, registry, max_workers, pc, manifest, deps_orig,
                   work_queue, num_threads, started, idle_semaphore, exited,
                   shutdown, releasing, waiters, ac_finished, ac_pending,
                   waiter_finished, deps_latest, err, result, path_out,
                   finish_order, yield_order, rt_vars>>

\* a get_latest returns or raises: set_result or set_exception finishes the
\* future and tells the waiter installed on it
LookupDone(i) ==
    /\ futures[i].state = "RUNNING"
    /\ LET r == get_latest(deps_orig[i], registry)
       IN futures' =
              [futures EXCEPT ![i] = Future("FINISHED", r.raised, r.value)]
    /\ waiter_finished' =
           IF i \in waiters THEN Append(waiter_finished, i)
           ELSE waiter_finished
    /\ releasing' = releasing \cup {i}
    /\ finish_order' = Append(finish_order, i)
    /\ UNCHANGED <<heap, registry, max_workers, pc, manifest, deps_orig,
                   work_queue, num_threads, started, idle_semaphore, exited,
                   shutdown, taken, waiters, ac_finished, ac_pending,
                   deps_latest, err, result, path_out, yield_order, rt_vars>>

\* the worker, back from work_item.run(), releases the idle count and goes
\* back to work_queue.get
WorkerRelease(i) ==
    /\ i \in releasing
    /\ idle_semaphore' = idle_semaphore + 1
    /\ releasing' = releasing \ {i}
    /\ UNCHANGED <<heap, registry, max_workers, pc, manifest, deps_orig,
                   futures, work_queue, num_threads, started, exited, shutdown,
                   taken, waiters, ac_finished, ac_pending, waiter_finished,
                   deps_latest, err, result, path_out, finish_order,
                   yield_order, rt_vars>>

\* a worker finds the queue drained after the shutdown and returns
WorkerExit ==
    /\ shutdown
    /\ Blocked > 0
    /\ work_queue = <<>>
    /\ exited' = exited + 1
    /\ UNCHANGED <<heap, registry, max_workers, pc, manifest, deps_orig,
                   futures, work_queue, num_threads, started, idle_semaphore,
                   shutdown, taken, releasing, waiters, ac_finished,
                   ac_pending, waiter_finished, deps_latest, err, result,
                   path_out, finish_order, yield_order, rt_vars>>

Next ==
    \/ Load
    \/ DeepCopy
    \/ Parse
    \/ Executor
    \/ SubmitPut
    \/ SubmitAdjust
    \/ SubmitAdd
    \/ AsCompleted
    \/ LoopYield
    \/ AsCompletedClose
    \/ LoopEnd
    \/ Shutdown
    \/ JoinRaise
    \/ JoinReturn
    \/ Write
    \/ WorkerGet
    \/ \E i \in Futs : WorkerRun(i)
    \/ \E i \in Futs : LookupDone(i)
    \/ \E i \in Futs : WorkerRelease(i)
    \/ WorkerExit

Spec == Init /\ [][Next]_vars

\* the main thread's steps and the worker threads' steps
MainStep ==
    \/ Load \/ DeepCopy \/ Parse \/ Executor \/ SubmitPut \/ SubmitAdjust
    \/ SubmitAdd \/ AsCompleted \/ LoopYield \/ AsCompletedClose \/ LoopEnd
    \/ Shutdown \/ JoinRaise \/ JoinReturn \/ Write

WorkerStep ==
    \/ WorkerGet
    \/ \E i \in Futs : WorkerRun(i)
    \/ \E i \in Futs : LookupDone(i)
    \/ \E i \in Futs : WorkerRelease(i)
    \/ WorkerExit

\* a thread that can take a step takes it, and a get_latest ends: its
\* requests.get carries timeout=_TIMEOUT
FairSpec == Spec /\ WF_vars(MainStep) /\ WF_vars(WorkerStep)

---------------------------------------------------------------------------
(* Package.from_str and Package.__str__ on their own *)

Alphabet == {"a", "b", "-"}

Strings(n) == UNION {[1..k -> Alphabet] : k \in 0..n}

PoolOff ==
    /\ heap = <<>>
    /\ registry = [k \in PoolKeys |-> LookupError]
    /\ max_workers = _DEFAULT_MAX_WORKERS
    /\ pc = "off"
    /\ manifest = "orig"
    /\ deps_orig = <<>>
    /\ futures = <<>>
    /\ work_queue = <<>>
    /\ num_threads = 0
    /\ started = 0
    /\ idle_semaphore = 0
    /\ exited = 0
    /\ shutdown = FALSE
    /\ taken = {}
    /\ releasing = {}
    /\ waiters = {}
    /\ ac_finished = <<>>
    /\ ac_pending = {}
    /\ waiter_finished = <<>>
    /\ deps_latest = <<>>
    /\ err = NoError
    /\ result = "null"
    /\ path_out = <<>>
    /\ finish_order = <<>>
    /\ yield_order = <<>>

InitPkg ==
    /\ PoolOff
    /\ rt_pc = "start"
    /\ rt_in \in
         {RtInput("str", s, NoPackage) : s \in Strings(MaxLen)}
         \cup {RtInput("pkg", <<>>, Package(c[1], c[2], c[3])) :
                  c \in Strings(MaxCompLen) \X Strings(MaxCompLen)
                          \X Strings(MaxCompLen)}
    /\ rt_out = RtOutput(FALSE, NoPackage, <<>>)

\* Package.from_str(s)
ParseFirst ==
    /\ rt_pc = "start"
    /\ rt_in.kind = "str"
    /\ LET r == from_str(rt_in.s) IN
         /\ rt_out' = RtOutput(r.raised, r.value, <<>>)
         /\ rt_pc' = IF r.raised THEN "failed" ELSE "parsed"
    /\ UNCHANGED <<pool_vars, rt_in>>

\* str(Package.from_str(s))
FormatSecond ==
    /\ rt_pc = "parsed"
    /\ rt_out' = [rt_out EXCEPT !.s = __str__(rt_out.p)]
    /\ rt_pc' = "done"
    /\ UNCHANGED <<pool_vars, rt_in>>

\* str(p)
FormatFirst ==
    /\ rt_pc = "start"
    /\ rt_in.kind = "pkg"
    /\ rt_out' = RtOutput(FALSE, NoPackage, __str__(rt_in.p))
    /\ rt_pc' = "formatted"
    /\ UNCHANGED <<pool_vars, rt_in>>

\* Package.from_str(str(p))
ParseSecond ==
    /\ rt_pc = "formatted"
    /\ LET r == from_str(rt_out.s) IN
         /\ rt_out' = RtOutput(r.raised, r.value, rt_out.s)
         /\ rt_pc' = IF r.raised THEN "failed" ELSE "done"
    /\ UNCHANGED <<pool_vars, rt_in>>

NextPkg == ParseFirst \/ FormatSecond \/ FormatFirst \/ ParseSecond

SpecPkg == InitPkg /\ [][NextPkg]_vars

---------------------------------------------------------------------------
(* Properties *)

Loaded == pc # "start"

InputDeps == heap["orig"].dependencies

DashCount(s) == Cardinality({i \in 1..Len(s) : s[i] = "-"})

\* not exactly three dash-separated parts
Malformed(s) == DashCount(s) # 2

NoDash(s) == DashCount(s) = 0

IsAscending(s) == \A i \in 1..(Len(s) - 1) : StrLE(s[i], s[i + 1])

Returned == pc \in {"returned", "written"}

Terminated == pc \in {"returned", "written", "raised"}

Failed == {i \in Finished : futures[i].raised}

Started == {i \in Futs : futures[i].state # "PENDING"}

Count(s, x) == Cardinality({i \in 1..Len(s) : s[i] = x})

\* the identifier of input entry d at the registry's latest version
Updated(d) ==
    LET parts == split(d) IN
    parts[1] \o <<"-">> \o parts[2] \o <<"-">>
        \o registry[<<parts[1], parts[2]>>].version_number

\* what the lookups give when they are made one after the other in the
\* manifest's order: a value of the manifest and the registry alone
Sequential ==
    sorted([i \in 1..Len(InputDeps) |->
               __str__(get_latest(from_str(InputDeps[i]).value,
                                  registry).value)])

\* C1: whenever update_manifest_deps has returned, the returned
\* `dependencies` is ascending in string order and is the list that the
\* manifest and the registry determine, whatever order the lookups finished
\* in and whatever max_workers is.
C1_Deterministic ==
    Returned =>
        /\ IsAscending(heap[result].dependencies)
        /\ heap[result].dependencies = Sequential

\* two or more workers, the lookups finished in another order than they were
\* submitted, and the results came in another order than the sorted one
C1_Witness ==
    /\ Returned
    /\ max_workers > 1
    /\ Len(finish_order) > 1
    /\ \E i \in 1..Len(finish_order) : finish_order[i] # i
    /\ [i \in 1..Len(deps_latest) |-> __str__(deps_latest[i])]
           # heap[result].dependencies

\* C2: once a lookup has failed, update_manifest_deps never returns a
\* manifest and the output file is never written; when the run is over it
\* has raised.  The file is written only after a return.
C2_FailureAborts ==
    /\ Failed # {} =>
          /\ ~Returned
          /\ result = "null"
          /\ path_out = <<>>
          /\ Terminated => (pc = "raised" /\ err.type = "ValueError")
    /\ path_out # <<>> => (pc = "written" /\ result # "null")
    /\ pc = "raised" => (result = "null" /\ path_out = <<>>)

\* the call has raised with one lookup failed and another succeeded
C2_Witness ==
    /\ pc = "raised"
    /\ Failed # {}
    /\ \E i \in Finished : ~futures[i].raised
    /\ deps_latest # <<>>

\* C3: no step changes the caller's document, and what is returned is
\* another object.
C3_NoMutation ==
    /\ [](result # "orig")
    /\ [][Loaded => heap'["orig"] = heap["orig"]]_vars

\* returned with a dependency list that differs from the caller's
C3_Witness ==
    /\ Returned
    /\ heap[result].dependencies # heap["orig"].dependencies
    /\ Len(heap["orig"].dependencies) > 1

\* C4: the returned manifest has the input's other field, and its
\* `dependencies` is ascending and holds each input entry's identifier at
\* the registry's version as often as the input gives rise to it.
C4_AllUpdated ==
    Returned =>
        LET out == heap[result].dependencies IN
        /\ DOMAIN heap[result] = DOMAIN heap["orig"]
        /\ heap[result].name = heap["orig"].name
        /\ Len(out) = Len(InputDeps)
        /\ IsAscending(out)
        /\ \A i \in 1..Len(InputDeps) :
              Count(out, Updated(InputDeps[i]))
                  = Cardinality({j \in 1..Len(InputDeps) :
                                    Updated(InputDeps[j])
                                        = Updated(InputDeps[i])})
        /\ \A i \in 1..Len(out) :
              \E j \in 1..Len(InputDeps) : out[i] = Updated(InputDeps[j])

\* returned with a repeated entry and an entry whose version changed
C4_Witness ==
    /\ Returned
    /\ \E i, j \in 1..Len(InputDeps) : i # j /\ InputDeps[i] = InputDeps[j]
    /\ \E i \in 1..Len(InputDeps) : Updated(InputDeps[i]) # InputDeps[i]
    /\ \E i \in 1..Len(InputDeps) : Updated(InputDeps[i]) = InputDeps[i]

\* C5: with a malformed entry in the manifest no future is ever submitted,
\* no thread started and no lookup begun, and the call ends raising the
\* parse error of the first malformed entry.
C5_ParseBeforeLookups ==
    (Loaded /\ \E i \in 1..Len(InputDeps) : Malformed(InputDeps[i])) =>
        /\ futures = <<>>
        /\ work_queue = <<>>
        /\ num_threads = 0
        /\ started = 0
        /\ pc \in {"main", "parse", "raised"}
        /\ pc = "raised" =>
              /\ err.of = "parse"
              /\ Malformed(err.full_name)
              /\ \E i \in 1..Len(InputDeps) :
                    /\ InputDeps[i] = err.full_name
                    /\ \A j \in 1..(i - 1) : ~Malformed(InputDeps[j])

\* raised on a malformed entry that follows a well-formed one
C5_Witness ==
    /\ pc = "raised"
    /\ err.of = "parse"
    /\ Len(InputDeps) > 1
    /\ ~Malformed(InputDeps[1])
    /\ Malformed(InputDeps[2])
    /\ DashCount(InputDeps[2]) > 2

\* C6: a string with exactly two dashes parses and formats back to itself;
\* a triple without dashes formats and parses back to itself.
C6_RoundTrip ==
    /\ (rt_in.kind = "str" /\ DashCount(rt_in.s) = 2) =>
          /\ rt_pc # "failed"
          /\ rt_pc = "done" => rt_out.s = rt_in.s
    /\ (/\ rt_in.kind = "pkg"
        /\ NoDash(rt_in.p.namespace)
        /\ NoDash(rt_in.p.name)
        /\ NoDash(rt_in.p.version)) =>
          /\ rt_pc # "failed"
          /\ rt_pc = "done" => rt_out.p = rt_in.p

\* a string of three non-empty components has made the round trip
C6_Witness ==
    /\ rt_pc = "done"
    /\ rt_in.kind = "str"
    /\ DashCount(rt_in.s) = 2
    /\ Len(rt_in.s) = MaxLen
    /\ rt_out.s = rt_in.s
    /\ rt_out.p.namespace # rt_out.p.name

\* C7: never more lookups running, nor more worker threads started, than
\* max_workers; a lookup leaves the queue only in the hands of a worker
\* thread that holds no other, and a submitted lookup that has not started
\* is in the queue or in the hands of the worker that is about to start it.
C7_BoundedInFlight ==
    /\ Cardinality(Running) <= max_workers
    /\ num_threads <= started
    /\ started <= max_workers
    /\ Blocked >= 0
    /\ \A i \in Futs :
          futures[i].state = "PENDING"
              <=> \/ \E k \in 1..Len(work_queue) : work_queue[k] = i
                  \/ i \in taken

\* every worker running a lookup and another lookup waiting in the queue
C7_Witness ==
    /\ max_workers > 1
    /\ Cardinality(Running) = max_workers
    /\ work_queue # <<>>

\* C8: a running lookup is never cancelled: it stays running until it
\* finishes, also after a failure has been seen; when the call raises, every
\* lookup that was started has finished, and nothing was returned or written.
C8_SiblingsRunOn ==
    /\ [][\A i \in Futs :
             futures[i].state = "RUNNING" =>
                 futures'[i].state \in {"RUNNING", "FINISHED"}]_vars
    /\ [](pc = "raised" =>
             /\ \A i \in Started : futures[i].state = "FINISHED"
             /\ result = "null"
             /\ path_out = <<>>)

\* the failure has been seen while a sibling is still running
C8_Witness ==
    /\ pc = "join"
    /\ err.of = "lookup"
    /\ \E i \in Running : i # err.cause

\* C9 as stated: the error names the package of the failed lookup that
\* finished first.
C9_FirstInCompletionOrder ==
    (pc = "raised" /\ err.of = "lookup") =>
        \E k \in 1..Len(finish_order) :
            /\ deps_orig[finish_order[k]] = err.pkg
            /\ \A j \in 1..(k - 1) : ~futures[finish_order[j]].raised

\* C9, amended: the error is raised from a lookup that has failed, names
\* that lookup's package, and that lookup is the first failed one
\* as_completed yielded; no lookup of the named package has succeeded.
C9_FirstYielded ==
    err.of = "lookup" =>
        /\ err.cause \in Failed
        /\ err.pkg = deps_orig[err.cause]
        /\ yield_order # <<>>
        /\ yield_order[Len(yield_order)] = err.cause
        /\ \A k \in 1..(Len(yield_order) - 1) : ~futures[yield_order[k]].raised
        /\ \A i \in Finished : deps_orig[i] = err.pkg => futures[i].raised

\* raised while two lookups had failed, naming another package than that of
\* the lookup that failed first
C9_Witness ==
    /\ pc = "raised"
    /\ err.of = "lookup"
    /\ Cardinality(Failed) > 1
    /\ futures[finish_order[1]].raised
    /\ deps_orig[finish_order[1]] # err.pkg

\* C10: with at least one worker, update_manifest_deps returns or raises.
C10_Terminates == (max_workers >= 1) => <>Terminated

\* over with more dependencies than workers
C10_Witness ==
    /\ Terminated
    /\ max_workers >= 1
    /\ Len(deps_orig) > max_workers
    /\ Len(finish_order) = Len(deps_orig)

====
